---- MODULE Spec2Model ----
(***************************************************************************)
(* Model of @api-platform/zod: translation of api-doc-parser resources     *)
(* into Zod schemas (field.js, resource.js, collection.js, index.js).      *)
(*                                                                         *)
(* JavaScript values are tagged records; a schema is a tagged record that  *)
(* describes the Zod node the code builds; Parse is the check of a value   *)
(* against such a node (z.safeParse).                                      *)
(***************************************************************************)
EXTENDS Integers, Sequences, FiniteSets, TLC

(***************************************************************************)
(* Bounds of the model.                                                    *)
(***************************************************************************)
\* integers probed are -MaxInt .. MaxInt (all inside the safe-integer range)
MaxInt == 2
\* longest resource list handed to schemasFromResources
MaxResources == 2

(***************************************************************************)
(* JavaScript values.                                                      *)
(* A number is held as twice its value (h2), so that halves such as 0.5    *)
(* and 1.5 are the non-integer numbers of the model.                       *)
(* An object is the sequence of its <<key, value>> entries in insertion    *)
(* order, keys distinct.  A key is a sequence of tokens; the token         *)
(* "hydra:" is the six-character prefix, so "hydra:member" is              *)
(* <<"hydra:", "member">> and "member" is <<"member">>.                    *)
(***************************************************************************)
Undef == [t |-> "undefined"]
Null == [t |-> "null"]
Bool(b) == [t |-> "boolean", b |-> b]
Half(h) == [t |-> "number", h2 |-> h]
Num(n) == Half(2 * n)
Str(s) == [t |-> "string", s |-> s]
Arr(a) == [t |-> "array", a |-> a]
Obj(o) == [t |-> "object", o |-> o]
ResRef(title, name) == [t |-> "resource", title |-> title, name |-> name]

K(s) == <<s>>
HK(s) == <<"hydra:", s>>

IsInteger(v) == v.t = "number" /\ v.h2 % 2 = 0

\* JavaScript truthiness, as used by `a || b` and `if (a)`
Truthy(v) ==
  CASE v.t = "undefined" -> FALSE
    [] v.t = "null" -> FALSE
    [] v.t = "boolean" -> v.b
    [] v.t = "number" -> v.h2 # 0
    [] v.t = "string" -> v.s # ""
    [] OTHER -> TRUE

\* a || b
Or(a, b) == IF Truthy(a) THEN a ELSE b

\* key in obj
HasKey(o, key) == \E i \in 1..Len(o) : o[i][1] = key

\* obj[key]
Get(o, key) ==
  IF HasKey(o, key)
    THEN o[CHOOSE i \in 1..Len(o) : o[i][1] = key][2]
    ELSE Undef

\* obj[key] = value: an existing key keeps its place, a new key is appended
Put(o, key, value) ==
  IF HasKey(o, key)
    THEN [i \in 1..Len(o) |-> IF o[i][1] = key THEN <<key, value>> ELSE o[i]]
    ELSE Append(o, <<key, value>>)

(***************************************************************************)
(* Schema nodes (what the z.* constructors return).                        *)
(***************************************************************************)
ZString == [t |-> "schema", k |-> "string", format |-> "none"]
ZFormat(f) == [t |-> "schema", k |-> "string", format |-> f]
ZInt == [t |-> "schema", k |-> "int", lo |-> <<>>, hi |-> <<>>]
ZIntMin(n) == [t |-> "schema", k |-> "int", lo |-> <<n>>, hi |-> <<>>]
ZIntMax(n) == [t |-> "schema", k |-> "int", lo |-> <<>>, hi |-> <<n>>]
ZNumber == [t |-> "schema", k |-> "number"]
ZBoolean == [t |-> "schema", k |-> "boolean"]
ZLiteral(v) == [t |-> "schema", k |-> "literal", v |-> v]
ZEnum(vals) == [t |-> "schema", k |-> "enum", vals |-> vals]
\* mutant: z.object, which strips the keys the shape does not name
ZLooseObject_Strip(shape) == [t |-> "schema", k |-> "object", shape |-> shape]

ZLooseObject(shape) == [t |-> "schema", k |-> "looseObject", shape |-> shape]
ZArray(el) == [t |-> "schema", k |-> "array", el |-> el]
ZNullable(inner) == [t |-> "schema", k |-> "nullable", inner |-> inner]
ZOptional(inner) == [t |-> "schema", k |-> "optional", inner |-> inner]
\* z.lazy(() => schemaMap[embeddedName]): the node keeps the name only
ZLazy(ref) == [t |-> "schema", k |-> "lazy", ref |-> ref]
\* z.preprocess(stripHydraPrefix, inner)
ZPreprocess(inner) == [t |-> "schema", k |-> "preprocess", inner |-> inner]

(***************************************************************************)
(* src/src/index.js: stripHydraPrefix                                      *)
(***************************************************************************)
\* key.startsWith("hydra:") ? key.slice(6) : key
StripKey(key) ==
  IF Len(key) > 0 /\ Head(key) = "hydra:" THEN Tail(key) ELSE key

RECURSIVE stripHydraPrefix(_)
RECURSIVE StripEntries(_, _)

\* the for-loop over Object.entries(data), out being the object built so far
StripEntries(entries, out) ==
  IF entries = <<>>
    THEN out
    ELSE StripEntries(Tail(entries),
                      Put(out, StripKey(Head(entries)[1]),
                          stripHydraPrefix(Head(entries)[2])))

\* mutant: arrays returned as they are
stripHydraPrefix_NoArrays(data) ==
  CASE data.t = "object" -> Obj(StripEntries(data.o, <<>>))
    [] OTHER -> data

stripHydraPrefix(data) ==
  CASE data.t = "array" ->
         Arr([i \in 1..Len(data.a) |-> stripHydraPrefix(data.a[i])])
    [] data.t = "object" -> Obj(StripEntries(data.o, <<>>))
    [] OTHER -> data

(***************************************************************************)
(* The check of a value against a schema node.  ctx is the schemaMap the   *)
(* lazy getters close over, read when the check reaches a lazy node.       *)
(***************************************************************************)
\* schemaMap[embeddedName]
Lookup(ctx, ref) ==
  IF ref.t = "string" /\ ref.s \in DOMAIN ctx THEN ctx[ref.s] ELSE Undef

\* the strings of the model that satisfy each string format
FormatOk(f, s) ==
  CASE f = "none" -> TRUE
    [] f = "email" -> s \in {"test@example.com"}
    [] f = "url" -> s \in {"https://example.com"}
    [] f = "uuid" -> s \in {"550e8400-e29b-41d4-a716-446655440000"}
    [] f = "date" -> s \in {"2024-01-15"}
    [] f = "datetime" -> s \in {"2024-01-15T10:30:00Z"}
    [] f = "time" -> s \in {"10:30:00"}

Success(v) == [status |-> "success", data |-> v]
Failure == [status |-> "failure", data |-> Undef]
TypeError == [status |-> "TypeError", data |-> Undef]

\* the outcome of a node from the outcomes of its children
Combine(rs, data) ==
  IF \E i \in DOMAIN rs : rs[i].status = "TypeError" THEN TypeError
  ELSE IF \E i \in DOMAIN rs : rs[i].status = "failure" THEN Failure
  ELSE Success(data)

RECURSIVE Parse(_, _, _)

ParseObject(schema, value, ctx) ==
  IF value.t # "object" THEN Failure
  ELSE
    LET shape == schema.shape
        rs == [i \in 1..Len(shape) |->
                 Parse(shape[i][2], Get(value.o, shape[i][1]), ctx)]
        declared == [i \in 1..Len(shape) |-> <<shape[i][1], rs[i].data>>]
        kept == SelectSeq(declared,
                  LAMBDA p : p[2].t # "undefined" \/ HasKey(value.o, p[1]))
        \* looseObject: the keys the shape does not name pass through
        extra == IF schema.k = "looseObject"
                   THEN SelectSeq(value.o, LAMBDA p : ~HasKey(shape, p[1]))
                   ELSE <<>>
    IN Combine(rs, Obj(kept \o extra))

ParseArray(schema, value, ctx) ==
  IF value.t # "array" THEN Failure
  ELSE
    LET rs == [i \in 1..Len(value.a) |-> Parse(schema.el, value.a[i], ctx)]
    IN Combine(rs, Arr([i \in 1..Len(value.a) |-> rs[i].data]))

ParseLazy(schema, value, ctx) ==
  LET inner == Lookup(ctx, schema.ref)
  IN \* the getter returned undefined or the null placeholder: reading
     \* inner._zod throws
     IF inner.t \in {"undefined", "null"} THEN TypeError
     ELSE Parse(inner, value, ctx)

Parse(schema, value, ctx) ==
  \* a shape entry or element that is no schema: reading its _zod throws
  IF schema.t # "schema" THEN TypeError
  ELSE
  CASE schema.k = "string" ->
         IF value.t = "string" /\ FormatOk(schema.format, value.s)
           THEN Success(value) ELSE Failure
    [] schema.k = "int" ->
         IF /\ IsInteger(value)
            /\ (schema.lo # <<>> => value.h2 >= 2 * schema.lo[1])
            /\ (schema.hi # <<>> => value.h2 <= 2 * schema.hi[1])
           THEN Success(value) ELSE Failure
    [] schema.k = "number" ->
         IF value.t = "number" THEN Success(value) ELSE Failure
    [] schema.k = "boolean" ->
         IF value.t = "boolean" THEN Success(value) ELSE Failure
    [] schema.k = "literal" ->
         IF value = schema.v THEN Success(value) ELSE Failure
    [] schema.k = "enum" ->
         IF \E i \in 1..Len(schema.vals) : schema.vals[i] = value
           THEN Success(value) ELSE Failure
    [] schema.k \in {"looseObject", "object"} ->
         ParseObject(schema, value, ctx)
    [] schema.k = "array" -> ParseArray(schema, value, ctx)
    [] schema.k = "nullable" ->
         IF value.t = "null" THEN Success(value)
         ELSE Parse(schema.inner, value, ctx)
    [] schema.k = "optional" ->
         IF value.t = "undefined" THEN Success(value)
         ELSE Parse(schema.inner, value, ctx)
    [] schema.k = "lazy" -> ParseLazy(schema, value, ctx)
    [] schema.k = "preprocess" ->
         Parse(schema.inner, stripHydraPrefix(value), ctx)

Accepts(schema, value, ctx) == Parse(schema, value, ctx).status = "success"

(***************************************************************************)
(* field.js (src/unnamed/part_000)                                         *)
(***************************************************************************)
STRING_TYPES ==
  {"string", "password", "byte", "binary", "hexBinary", "base64Binary",
   "duration"}

INTEGER_TYPES ==
  {"integer", "positiveInteger", "negativeInteger", "nonNegativeInteger",
   "nonPositiveInteger"}

NUMBER_TYPES == {"number", "decimal", "double", "float"}

\* Set.has(fieldType): strict equality with a member
SetHas(set, fieldType) == fieldType.t = "string" /\ fieldType.s \in set

\* mutant: the bound of positiveInteger off by one
integerWithConstraints_MinZero(fieldType) ==
  CASE fieldType = Str("positiveInteger") -> ZIntMin(0)
    [] fieldType = Str("negativeInteger") -> ZIntMax(-1)
    [] fieldType = Str("nonNegativeInteger") -> ZIntMin(0)
    [] fieldType = Str("nonPositiveInteger") -> ZIntMax(0)
    [] OTHER -> ZInt

integerWithConstraints(fieldType) ==
  CASE fieldType = Str("positiveInteger") -> ZIntMin(1)
    [] fieldType = Str("negativeInteger") -> ZIntMax(-1)
    [] fieldType = Str("nonNegativeInteger") -> ZIntMin(0)
    [] fieldType = Str("nonPositiveInteger") -> ZIntMax(0)
    [] OTHER -> ZInt

baseTypeToZod(fieldType) ==
  IF SetHas(STRING_TYPES, fieldType) THEN ZString
  ELSE IF SetHas(INTEGER_TYPES, fieldType) THEN integerWithConstraints(fieldType)
  ELSE IF SetHas(NUMBER_TYPES, fieldType) THEN ZNumber
  ELSE CASE fieldType = Str("email") -> ZFormat("email")
         [] fieldType = Str("url") -> ZFormat("url")
         [] fieldType = Str("uuid") -> ZFormat("uuid")
         [] fieldType = Str("boolean") -> ZBoolean
         [] fieldType = Str("date") -> ZFormat("date")
         [] fieldType = Str("dateTime") -> ZFormat("datetime")
         [] fieldType = Str("time") -> ZFormat("time")
         [] OTHER -> ZString

\* mutant: reference tested before enum
FieldBase_ReferenceFirst(field, schemaMap) ==
  IF Truthy(field.reference) THEN ZString
  ELSE IF Truthy(field.enum) THEN ZEnum(field.enum.a)
  ELSE IF Truthy(field.embedded)
    THEN ZLazy(Or(field.embedded.title, field.embedded.name))
  ELSE baseTypeToZod(Or(Or(field.type, field.range), Str("string")))

\* mutant: the context entry read while the schema is built
FieldBase_Eager(field, schemaMap) ==
  IF Truthy(field.enum) THEN ZEnum(field.enum.a)
  ELSE IF Truthy(field.reference) THEN ZString
  ELSE IF Truthy(field.embedded)
    THEN Lookup(schemaMap, Or(field.embedded.title, field.embedded.name))
  ELSE baseTypeToZod(Or(Or(field.type, field.range), Str("string")))

\* lines 73-83: the schema chosen by the if / else-if chain.  The getter
\* () => schemaMap[embeddedName] closes over schemaMap and is not called here.
FieldBase(field, schemaMap) ==
  IF Truthy(field.enum) THEN ZEnum(field.enum.a)
  ELSE IF Truthy(field.reference) THEN ZString
  ELSE IF Truthy(field.embedded)
    THEN ZLazy(Or(field.embedded.title, field.embedded.name))
  ELSE baseTypeToZod(Or(Or(field.type, field.range), Str("string")))

\* lines 86-91: the array wrapper
\* mutant: the element is always the schema already computed
FieldArray_NoArrayType(field, schema) ==
  IF field.maxCardinality # Undef /\ field.maxCardinality # Num(1)
    THEN ZArray(schema)
    ELSE schema

FieldArray(field, schema) ==
  IF field.maxCardinality # Undef /\ field.maxCardinality # Num(1)
    THEN ZArray(IF Truthy(field.arrayType)
                  THEN baseTypeToZod(field.arrayType)
                  ELSE schema)
    ELSE schema

\* lines 93-95: the nullable wrapper
FieldNullable(field, schema) ==
  IF Truthy(field.nullable) THEN ZNullable(schema) ELSE schema

\* lines 97-99: the optional wrapper
FieldOptional(field, schema) ==
  IF field.required = Bool(FALSE) THEN ZOptional(schema) ELSE schema

\* mutant: nullable applied to the element, before the array wrapper
fieldToZod_NullableFirst(field, schemaMap) ==
  FieldOptional(field,
    FieldArray(field, FieldNullable(field, FieldBase(field, schemaMap))))

fieldToZod(field, schemaMap) ==
  FieldOptional(field,
    FieldNullable(field, FieldArray(field, FieldBase(field, schemaMap))))

(***************************************************************************)
(* src/src/resource.js                                                     *)
(***************************************************************************)
RECURSIVE ShapeOf(_, _, _)

\* mutant: a field does not replace an earlier field of the same name
ShapeOf_FirstWins(fields, shape, schemaMap) ==
  IF fields = <<>>
    THEN shape
    ELSE ShapeOf(Tail(fields),
                 IF HasKey(shape, Head(fields).name)
                   THEN shape
                   ELSE Put(shape, Head(fields).name,
                            fieldToZod(Head(fields), schemaMap)),
                 schemaMap)

\* lines 20-23: for (const field of fields) shape[field.name] = fieldToZod(...)
ShapeOf(fields, shape, schemaMap) ==
  IF fields = <<>>
    THEN shape
    ELSE ShapeOf(Tail(fields),
                 Put(shape, Head(fields).name,
                     fieldToZod(Head(fields), schemaMap)),
                 schemaMap)

\* mutant: the name preferred to the title
TypeName_NameFirst(resource) == Or(resource.name, resource.title)

\* line 12
TypeName(resource) == Or(resource.title, resource.name)

\* mutant: fields preferred to readableFields
FieldsOf_FieldsFirst(resource) ==
  Or(Or(resource.fields, resource.readableFields), Arr(<<>>))

\* line 13
FieldsOf(resource) ==
  Or(Or(resource.readableFields, resource.fields), Arr(<<>>))

resourceToSchema(resource, schemaMap) ==
  ZLooseObject(
    ShapeOf(FieldsOf(resource).a,
            << <<K("@id"), ZString>>,
               <<K("@type"), ZLiteral(TypeName(resource))>> >>,
            schemaMap))

(***************************************************************************)
(* src/src/collection.js                                                   *)
(***************************************************************************)
ViewSchema ==
  ZLooseObject(<< <<K("@id"), ZString>>,
                  <<K("@type"), ZString>>,
                  <<K("first"), ZOptional(ZString)>>,
                  <<K("last"), ZOptional(ZString)>>,
                  <<K("previous"), ZOptional(ZString)>>,
                  <<K("next"), ZOptional(ZString)>> >>)

MappingSchema ==
  ZLooseObject(<< <<K("@type"), ZString>>,
                  <<K("variable"), ZString>>,
                  <<K("property"), ZOptional(ZNullable(ZString))>>,
                  <<K("required"), ZOptional(ZBoolean)>> >>)

SearchSchema ==
  ZLooseObject(<< <<K("@type"), ZString>>,
                  <<K("template"), ZOptional(ZString)>>,
                  <<K("variableRepresentation"), ZOptional(ZString)>>,
                  <<K("mapping"), ZOptional(ZArray(MappingSchema))>> >>)

\* mutant: view required
collectionSchema_ViewRequired(item) ==
  ZLooseObject(<< <<K("@id"), ZString>>,
                  <<K("@type"), ZString>>,
                  <<K("totalItems"), ZInt>>,
                  <<K("member"), ZArray(item)>>,
                  <<K("view"), ViewSchema>>,
                  <<K("search"), ZOptional(SearchSchema)>> >>)

collectionSchema(item) ==
  ZLooseObject(<< <<K("@id"), ZString>>,
                  <<K("@type"), ZString>>,
                  <<K("totalItems"), ZInt>>,
                  <<K("member"), ZArray(item)>>,
                  <<K("view"), ZOptional(ViewSchema)>>,
                  <<K("search"), ZOptional(SearchSchema)>> >>)

(***************************************************************************)
(* State.                                                                  *)
(*   pc          position of the call in progress                          *)
(*   field, resource, itemSchema, resources   the argument of the call     *)
(*   schemaMap   the resolution context (title -> null | schema)           *)
(*   schemas, collections   the maps schemasFromResources returns          *)
(*   i           index of the for-loop in progress                         *)
(*   base        fieldToZod's local `schema` after the if / else-if chain  *)
(*   schema      the schema returned, or the one being checked             *)
(*   target      which entry of schemas / collections is being checked     *)
(*   probe       the value handed to safeParse                             *)
(*   normalized  the value after the preprocess step of the schema         *)
(*   result      the outcome of safeParse                                  *)
(***************************************************************************)
VARIABLES pc, field, resource, itemSchema, resources, schemaMap, schemas,
          collections, i, base, schema, target, probe, normalized, result

vars == <<pc, field, resource, itemSchema, resources, schemaMap, schemas,
          collections, i, base, schema, target, probe, normalized, result>>

NoResult == [status |-> "none", data |-> Undef]

\* z.safeParse(s, v), the lazy getters reading schemaMap
SafeParseWith(s, v) ==
  /\ probe' = v
  /\ normalized' = IF s.k = "preprocess" THEN stripHydraPrefix(v) ELSE v
  /\ result' = Parse(s, v, schemaMap)

SafeParse(v) == SafeParseWith(schema, v)

(***************************************************************************)
(* fieldToZod(field, schemaMap) and the check of a value against what it   *)
(* returns.                                                                *)
(***************************************************************************)
\* makeField of the tests: { name: "test", required: true }
BaseField ==
  [name |-> K("test"), type |-> Undef, range |-> Undef, enum |-> Undef,
   reference |-> Undef, embedded |-> Undef, maxCardinality |-> Undef,
   arrayType |-> Undef, nullable |-> Undef, required |-> Bool(TRUE)]

TableTags ==
  STRING_TYPES \cup INTEGER_TYPES \cup NUMBER_TYPES
    \cup {"email", "url", "uuid", "boolean", "date", "dateTime", "time"}

\* tags outside the table: wrong case, unknown, empty
OtherTags == {"Integer", "Boolean", "unknownType", ""}

TypeValues == {Undef, Null} \cup {Str(s) : s \in TableTags \cup OtherTags}

RangeValues == {Undef, Str("integer"), Str("boolean"), Str("")}

EnumValues ==
  {Undef, Null, Arr(<<Str("draft"), Str("published"), Str("archived")>>)}

AuthorRef == ResRef(Str("Author"), Str("Author"))

EmbeddedValues ==
  {Undef, Null, AuthorRef, ResRef(Str(""), Str("Author")),
   ResRef(Undef, Str("Author")), ResRef(Str("Writer"), Str("Author")),
   ResRef(Undef, Undef)}

\* the base-type table: every type tag against every range tag
TypedFields ==
  {[BaseField EXCEPT !.type = ty, !.range = r] :
     ty \in TypeValues, r \in RangeValues}

\* the precedence chain: enum, reference, embedded, type, range together
ChainFields ==
  {[BaseField EXCEPT !.enum = e, !.reference = rf, !.embedded = em,
                     !.type = ty, !.range = r] :
     e \in EnumValues, rf \in {Undef, Null, AuthorRef}, em \in EmbeddedValues,
     ty \in {Undef, Str("integer")}, r \in {Undef, Str("boolean")}}

\* the wrappers over each kind of base schema
WrapBases ==
  {[BaseField EXCEPT !.type = Str("string")],
   [BaseField EXCEPT !.type = Str("integer")],
   [BaseField EXCEPT !.enum = Arr(<<Str("draft"), Str("published")>>)],
   [BaseField EXCEPT !.reference = AuthorRef],
   [BaseField EXCEPT !.embedded = AuthorRef]}

WrappedFields ==
  {[f EXCEPT !.maxCardinality = mc, !.arrayType = aty, !.nullable = nu,
             !.required = rq] :
     f \in WrapBases, mc \in {Undef, Null, Num(1), Num(2)},
     aty \in {Undef, Null, Str("integer"), Str("")},
     nu \in {Undef, Bool(TRUE), Bool(FALSE)},
     rq \in {Undef, Bool(TRUE), Bool(FALSE)}}

FieldInputs == TypedFields \cup ChainFields \cup WrappedFields

\* the schemaMap of the embedded-field test: { Author: authorSchema }
AuthorSchema ==
  ZLooseObject(<< <<K("@id"), ZString>>, <<K("name"), ZString>> >>)

FieldSchemaMaps == {<<>>, "Author" :> AuthorSchema}

AuthorValue ==
  Obj(<< <<K("@id"), Str("/api/authors/1")>>, <<K("name"), Str("Jane")>> >>)

ProbeStrings ==
  {"hello", "", "draft", "published", "archived", "unknown",
   "test@example.com", "https://example.com",
   "550e8400-e29b-41d4-a716-446655440000", "2024-01-15",
   "2024-01-15T10:30:00Z", "10:30:00"}

\* the numbers -MaxInt, -MaxInt + 0.5, ..., MaxInt
ProbeNumbers == {Half(h) : h \in (-2 * MaxInt)..(2 * MaxInt)}

FieldProbes ==
  {Undef, Null, Bool(TRUE), Bool(FALSE), AuthorValue, Obj(<<>>)}
    \cup {Str(s) : s \in ProbeStrings}
    \cup ProbeNumbers
    \cup {Arr(<<>>), Arr(<<Str("hello")>>), Arr(<<Str("hello"), Null>>),
          Arr(<<Null>>), Arr(<<Num(1)>>), Arr(<<Half(1)>>),
          Arr(<<Str("draft")>>), Arr(<<AuthorValue>>)}

Unused ==
  /\ resource = Undef /\ itemSchema = Undef /\ resources = <<>>
  /\ schemas = <<>> /\ collections = <<>> /\ i = 0 /\ target = Undef

InitField ==
  /\ pc = "call"
  /\ field \in FieldInputs
  /\ schemaMap \in FieldSchemaMaps
  /\ Unused
  /\ base = Undef /\ schema = Undef
  /\ probe = Undef /\ normalized = Undef /\ result = NoResult

CallFieldToZod ==
  /\ pc = "call"
  /\ base' = FieldBase(field, schemaMap)
  /\ schema' = fieldToZod(field, schemaMap)
  /\ pc' = "returned"
  /\ UNCHANGED <<field, resource, itemSchema, resources, schemaMap, schemas,
                 collections, i, target, probe, normalized, result>>

CheckField ==
  /\ pc = "returned"
  /\ \E v \in FieldProbes : SafeParse(v)
  /\ pc' = "checked"
  /\ UNCHANGED <<field, resource, itemSchema, resources, schemaMap, schemas,
                 collections, i, base, schema, target>>

NextField == CallFieldToZod \/ CheckField

SpecField == InitField /\ [][NextField]_vars

(***************************************************************************)
(* resourceToSchema(resource, schemaMap) and collectionSchema(itemSchema), *)
(* and the check of a value against what they return.                      *)
(***************************************************************************)
NamedField(name, ty) == [BaseField EXCEPT !.name = K(name), !.type = Str(ty)]

fTitle == NamedField("title", "string")
fSecret == NamedField("secret", "string")
fPages == [NamedField("pages", "integer") EXCEPT !.required = Bool(FALSE)]
fTitleInt == NamedField("title", "integer")
fAtType == NamedField("@type", "string")
fAtId == NamedField("@id", "integer")
fAuthor == [BaseField EXCEPT !.name = K("author"), !.embedded = AuthorRef]
fTags ==
  [BaseField EXCEPT !.name = K("tags"), !.maxCardinality = Null,
                    !.embedded = ResRef(Str("Tag"), Str("Tag"))]

\* (name, title) of a resource: equal, title empty, title absent, name
\* absent, different
NameTitles ==
  {<<Str("Book"), Str("Book")>>, <<Str("Book"), Str("")>>,
   <<Str("Book"), Undef>>, <<Undef, Str("Book")>>,
   <<Str("books"), Str("Book")>>}

FieldLists ==
  {Undef, Arr(<<>>), Arr(<<fTitle>>), Arr(<<fTitle, fSecret>>),
   Arr(<<fTitle, fPages>>), Arr(<<fTitle, fTitleInt>>), Arr(<<fAtType>>),
   Arr(<<fAtId>>), Arr(<<fAuthor>>), Arr(<<fTags>>)}

ReadableLists == {Undef, Arr(<<>>), Arr(<<fTitle>>), Arr(<<fAtType>>)}

ResourceInputs ==
  {[name |-> nt[1], title |-> nt[2], fields |-> fs, readableFields |-> rfs] :
     nt \in NameTitles, fs \in FieldLists, rfs \in ReadableLists}

\* Absent marks a key left out of a probe object
Absent == [t |-> "absent"]
ObjOf(entries) == Obj(SelectSeq(entries, LAMBDA p : p[2] # Absent))

ResourceProbes ==
  {Null, Str("Book"), Arr(<<>>)}
    \cup {ObjOf(<< <<K("@id"), id>>, <<K("@type"), ty>>, <<K("title"), ti>>,
                   <<K("secret"), se>>, <<K("extraField"), ex>>,
                   <<K("author"), au>>, <<K("tags"), ta>> >>) :
            id \in {Absent, Str("/api/books/1"), Num(1)},
            ty \in {Absent, Str("Book"), Str("Author"), Str("")},
            ti \in {Absent, Str("Test"), Num(1)},
            se \in {Absent, Str("s")},
            ex \in {Absent, Str("should be allowed")},
            au \in {Absent, AuthorValue},
            ta \in {Absent, Arr(<<>>)}}

\* the item schemas of the collectionSchema tests, and a non-object one
ItemSchemas ==
  {ZLooseObject(<< <<K("@id"), ZString>> >>),
   ZLooseObject(<< <<K("@id"), ZString>>,
                   <<K("@type"), ZLiteral(Str("Book"))>>,
                   <<K("title"), ZString>> >>),
   ZString}

BookValue ==
  Obj(<< <<K("@id"), Str("/api/books/1")>>, <<K("@type"), Str("Book")>>,
         <<K("title"), Str("Book One")>> >>)

ViewProbes ==
  {Absent, Undef, Null, Str("/api/books?page=1"),
   Obj(<< <<K("@id"), Str("/api/books?page=1")>>,
          <<K("@type"), Str("PartialCollectionView")>> >>),
   Obj(<< <<K("@id"), Str("/api/books?page=1")>>,
          <<K("@type"), Str("PartialCollectionView")>>,
          <<K("first"), Str("/api/books?page=1")>>,
          <<K("next"), Str("/api/books?page=2")>>,
          <<K("unknownLink"), Num(1)>> >>),
   Obj(<< <<K("@type"), Str("PartialCollectionView")>> >>),
   Obj(<< <<K("@id"), Str("/api/books?page=1")>>,
          <<K("@type"), Str("PartialCollectionView")>>,
          <<K("last"), Num(5)>> >>)}

MappingProbes ==
  {Absent, Str("title"), Arr(<<>>),
   Arr(<< Obj(<< <<K("@type"), Str("IriTemplateMapping")>>,
                 <<K("variable"), Str("title")>>,
                 <<K("property"), Str("title")>>,
                 <<K("required"), Bool(FALSE)>> >>) >>),
   Arr(<< Obj(<< <<K("@type"), Str("IriTemplateMapping")>>,
                 <<K("variable"), Str("title")>>,
                 <<K("property"), Null>>,
                 <<K("more"), Null>> >>) >>),
   Arr(<< Obj(<< <<K("@type"), Str("IriTemplateMapping")>> >>) >>),
   Arr(<< Obj(<< <<K("@type"), Str("IriTemplateMapping")>>,
                 <<K("variable"), Str("title")>>,
                 <<K("property"), Num(1)>> >>) >>),
   Arr(<< Obj(<< <<K("@type"), Str("IriTemplateMapping")>>,
                 <<K("variable"), Str("title")>>,
                 <<K("required"), Null>> >>) >>)}

SearchProbes ==
  {Absent, Null}
    \cup {ObjOf(<< <<K("@type"), ty>>, <<K("template"), te>>,
                   <<K("mapping"), ma>> >>) :
            ty \in {Absent, Str("IriTemplate")},
            te \in {Absent, Str("/api/books{?title}"), Num(1)},
            ma \in MappingProbes}

CollectionProbes ==
  {Null, Arr(<<>>)}
    \cup {ObjOf(<< <<K("@id"), id>>, <<K("@type"), ty>>,
                   <<K("totalItems"), to>>, <<K("member"), me>>,
                   <<K("view"), vi>>, <<K("search"), se>> >>) :
            id \in {Absent, Str("/api/books"), Num(1)},
            ty \in {Absent, Str("Collection")},
            to \in {Absent, Num(MaxInt), Half(1), Str("1")},
            me \in {Absent, Str("x"), Arr(<<>>), Arr(<<BookValue>>),
                    Arr(<<BookValue, Str("x")>>), Arr(<<BookValue, Null>>)},
            vi \in ViewProbes, se \in SearchProbes}

InitSchema ==
  /\ pc = "call"
  /\ \/ /\ resource \in ResourceInputs
        /\ schemaMap \in FieldSchemaMaps
        /\ itemSchema = Undef
     \/ /\ itemSchema \in ItemSchemas
        /\ resource = Undef
        /\ schemaMap = <<>>
  /\ field = Undef /\ resources = <<>>
  /\ schemas = <<>> /\ collections = <<>> /\ i = 0 /\ target = Undef
  /\ base = Undef /\ schema = Undef
  /\ probe = Undef /\ normalized = Undef /\ result = NoResult

CallResourceToSchema ==
  /\ pc = "call" /\ resource # Undef
  /\ schema' = resourceToSchema(resource, schemaMap)
  /\ pc' = "returned"
  /\ UNCHANGED <<field, resource, itemSchema, resources, schemaMap, schemas,
                 collections, i, base, target, probe, normalized, result>>

CallCollectionSchema ==
  /\ pc = "call" /\ itemSchema # Undef
  /\ schema' = collectionSchema(itemSchema)
  /\ pc' = "returned"
  /\ UNCHANGED <<field, resource, itemSchema, resources, schemaMap, schemas,
                 collections, i, base, target, probe, normalized, result>>

CheckResource ==
  /\ pc = "returned" /\ resource # Undef
  /\ \E v \in ResourceProbes : SafeParse(v)
  /\ pc' = "checked"
  /\ UNCHANGED <<field, resource, itemSchema, resources, schemaMap, schemas,
                 collections, i, base, schema, target>>

CheckCollectionSchema ==
  /\ pc = "returned" /\ itemSchema # Undef
  /\ \E v \in CollectionProbes : SafeParse(v)
  /\ pc' = "checked"
  /\ UNCHANGED <<field, resource, itemSchema, resources, schemaMap, schemas,
                 collections, i, base, schema, target>>

NextSchema ==
  \/ CallResourceToSchema
  \/ CallCollectionSchema
  \/ CheckResource
  \/ CheckCollectionSchema

SpecSchema == InitSchema /\ [][NextSchema]_vars

(***************************************************************************)
(* schemasFromResources(resources), pass by pass, and the checks of values *)
(* against the schemas and collections it returns.                         *)
(***************************************************************************)
\* makeResource of the tests: readableFields is fields
Resource(name, title, fields) ==
  [name |-> name, title |-> title, fields |-> Arr(fields),
   readableFields |-> Arr(fields)]

Embeds(name, title) ==
  [BaseField EXCEPT !.name = K(name),
                    !.embedded = ResRef(Str(title), Str(title))]

gAuthor == Embeds("author", "Author")
gBooks == [Embeds("books", "Book") EXCEPT !.maxCardinality = Null]
gParent == [Embeds("parent", "Book") EXCEPT !.required = Bool(FALSE)]
gPublisher == Embeds("publisher", "Publisher")
gTags == [Embeds("tags", "Tag") EXCEPT !.maxCardinality = Null]

\* Book embeds Author; Author embeds many Book; Book embeds itself; Book
\* embeds resources nobody declares; a second Book under another name, with
\* two fields of one name; a resource with an empty name and one without a
\* name
ResourcePool ==
  {Resource(Str("Book"), Str("Book"), <<fTitle, gAuthor>>),
   Resource(Str("Author"), Str("Author"), <<gBooks>>),
   Resource(Str("Book"), Str("Book"), <<gParent>>),
   Resource(Str(""), Str("Book"), <<gPublisher>>),
   Resource(Str("Book"), Str("Book"), <<gTags>>),
   Resource(Str("books"), Str("Book"), <<fTitle, fTitleInt>>),
   Resource(Undef, Str("Author"), <<>>)}

RECURSIVE ListsUpTo(_)
ListsUpTo(n) ==
  IF n = 0 THEN {<<>>}
  ELSE LET shorter == ListsUpTo(n - 1)
       IN shorter \cup {Append(l, r) : l \in shorter, r \in ResourcePool}

ResourceLists == ListsUpTo(MaxResources)

Item(ty, entries) ==
  ObjOf(<< <<K("@id"), Str("/api/items/1")>>, <<K("@type"), Str(ty)>> >>
        \o entries)

Author0 == Item("Author", << <<K("books"), Arr(<<>>)>> >>)
Book0 == Item("Book", << <<K("title"), Str("Test")>> >>)
\* the value of the circular-reference test
Book1 ==
  Item("Book", << <<K("title"), Str("Test")>>, <<K("author"), Author0>> >>)
Author1 == Item("Author", << <<K("books"), Arr(<<Book1>>)>> >>)

ItemProbes ==
  {Null, Author0, Author1, Item("Author", <<>>),
   Item("Author", << <<K("books"), Arr(<<Null>>)>> >>)}
    \cup {Item("Book", << <<K("title"), ti>>, <<K("author"), au>>,
                          <<K("parent"), pa>>, ot >>) :
            ti \in {Absent, Str("Test"), Num(1)},
            au \in {Absent, Author0, Author1},
            pa \in {Absent, Book0},
            ot \in {<<K("none"), Absent>>,
                    <<K("publisher"), Obj(<<>>)>>,
                    <<K("tags"), Arr(<<>>)>>,
                    <<K("tags"), Arr(<<Obj(<<>>)>>)>>}}

HHK(s) == <<"hydra:", "hydra:", s>>

\* Book0 with a prefixed key
HydraBook0 ==
  Item("Book", << <<HK("title"), Str("Test")>> >>)

HydraView ==
  Obj(<< <<K("@id"), Str("/api/books?page=1")>>,
         <<K("@type"), Str("hydra:PartialCollectionView")>>,
         <<HK("first"), Str("/api/books?page=1")>> >>)

NoEntry == <<K("none"), Absent>>

Envelope(first, tk, tv, mk, mv, vk, last) ==
  ObjOf(<< first,
           <<K("@id"), Str("/api/books")>>,
           <<K("@type"), Str("hydra:Collection")>>,
           <<tk, tv>>, <<mk, mv>>, <<vk, HydraView>>, last >>)

\* envelopes written with and without the prefix, with a key prefixed twice
\* and, in the last two sets, with a key present in both forms
EnvelopeProbes ==
  {Null}
    \cup {Envelope(NoEntry, tk, Num(1), mk, mv, vk, NoEntry) :
            tk \in {K("totalItems"), HK("totalItems"), HHK("totalItems")},
            mk \in {K("member"), HK("member"), HHK("member")},
            mv \in {Arr(<<>>), Arr(<<Book0>>), Arr(<<HydraBook0>>),
                    Arr(<<Str("x")>>)},
            vk \in {K("none"), K("view"), HK("view")}}
    \cup {Envelope(NoEntry, tk, Str("1"), K("member"), Arr(<<>>), K("none"),
                   NoEntry) :
            tk \in {K("totalItems"), HK("totalItems")}}
    \cup {Envelope(<<ks[1], Str("x")>>, K("totalItems"), Num(1), ks[2],
                   Arr(<<>>), K("none"), NoEntry) :
            ks \in {<<K("member"), HK("member")>>,
                    <<HK("member"), K("member")>>}}
    \cup {Envelope(NoEntry, ks[1], Num(1), K("member"), Arr(<<>>), K("none"),
                   <<ks[2], Str("2")>>) :
            ks \in {<<K("totalItems"), HK("totalItems")>>,
                    <<HK("totalItems"), K("totalItems")>>}}

\* resource.title || resource.name, and resource.name || title, as keys
TitleOf(r) == TypeName(r).s
\* mutant: the title used as the key whatever the name
NameOf_TitleOnly(r) == TitleOf(r)

NameOf(r) == Or(r.name, TypeName(r)).s

Init ==
  /\ pc = "pass1"
  /\ resources \in ResourceLists
  /\ schemaMap = <<>> /\ schemas = <<>> /\ collections = <<>>
  /\ i = 1
  /\ field = Undef /\ resource = Undef /\ itemSchema = Undef
  /\ base = Undef /\ schema = Undef /\ target = Undef
  /\ probe = Undef /\ normalized = Undef /\ result = NoResult

\* pass 1 without the registration
Pass1Step_NoRegister ==
  /\ pc = "pass1" /\ i <= Len(resources)
  /\ i' = i + 1
  /\ UNCHANGED <<pc, field, resource, itemSchema, resources, schemaMap,
                 schemas, collections, base, schema, target, probe,
                 normalized, result>>

\* lines 45-48: schemaMap[title] = null
Pass1Step ==
  /\ pc = "pass1" /\ i <= Len(resources)
  /\ schemaMap' = (TitleOf(resources[i]) :> Null) @@ schemaMap
  /\ i' = i + 1
  /\ UNCHANGED <<pc, field, resource, itemSchema, resources, schemas,
                 collections, base, schema, target, probe, normalized,
                 result>>

Pass1Done ==
  /\ pc = "pass1" /\ i > Len(resources)
  /\ pc' = "pass2" /\ i' = 1
  /\ UNCHANGED <<field, resource, itemSchema, resources, schemaMap, schemas,
                 collections, base, schema, target, probe, normalized,
                 result>>

\* lines 51-57
Pass2Step ==
  /\ pc = "pass2" /\ i <= Len(resources)
  /\ LET built == resourceToSchema(resources[i], schemaMap)
     IN /\ schemaMap' = (TitleOf(resources[i]) :> built) @@ schemaMap
        /\ schemas' = (NameOf(resources[i]) :> built) @@ schemas
  /\ i' = i + 1
  /\ UNCHANGED <<pc, field, resource, itemSchema, resources, collections,
                 base, schema, target, probe, normalized, result>>

Pass2Done ==
  /\ pc = "pass2" /\ i > Len(resources)
  /\ pc' = "pass3" /\ i' = 1
  /\ UNCHANGED <<field, resource, itemSchema, resources, schemaMap, schemas,
                 collections, base, schema, target, probe, normalized,
                 result>>

\* lines 60-67
Pass3Step ==
  /\ pc = "pass3" /\ i <= Len(resources)
  /\ collections' =
       (NameOf(resources[i]) :>
          ZPreprocess(collectionSchema(schemas[NameOf(resources[i])])))
         @@ collections
  /\ i' = i + 1
  /\ UNCHANGED <<pc, field, resource, itemSchema, resources, schemaMap,
                 schemas, base, schema, target, probe, normalized, result>>

\* line 69: return { schemas, collections }
Return ==
  /\ pc = "pass3" /\ i > Len(resources)
  /\ pc' = "done"
  /\ UNCHANGED <<field, resource, itemSchema, resources, schemaMap, schemas,
                 collections, i, base, schema, target, probe, normalized,
                 result>>

\* safeParse(schemas[n], v)
CheckSchema ==
  /\ pc = "done"
  /\ \E n \in DOMAIN schemas : \E v \in ItemProbes :
       /\ target' = [kind |-> "schema", name |-> n]
       /\ schema' = schemas[n]
       /\ SafeParseWith(schemas[n], v)
  /\ pc' = "checked"
  /\ UNCHANGED <<field, resource, itemSchema, resources, schemaMap, schemas,
                 collections, i, base>>

\* safeParse(collections[n], v)
CheckCollection ==
  /\ pc = "done"
  /\ \E n \in DOMAIN collections : \E v \in EnvelopeProbes :
       /\ target' = [kind |-> "collection", name |-> n]
       /\ schema' = collections[n]
       /\ SafeParseWith(collections[n], v)
  /\ pc' = "checked"
  /\ UNCHANGED <<field, resource, itemSchema, resources, schemaMap, schemas,
                 collections, i, base>>

Build ==
  \/ Pass1Step
  \/ Pass1Done
  \/ Pass2Step
  \/ Pass2Done
  \/ Pass3Step
  \/ Return

Next ==
  \/ Pass1Step
  \/ Pass1Done
  \/ Pass2Step
  \/ Pass2Done
  \/ Pass3Step
  \/ Return
  \/ CheckSchema
  \/ CheckCollection

Spec == Init /\ [][Next]_vars

(***************************************************************************)
(* Claims about fieldToZod, checked under SpecField.                       *)
(***************************************************************************)
\* a ?? b: the left operand unless it is null or undefined
Present(v) == v.t \notin {"undefined", "null"}
Coalesce(a, b) == IF Present(a) THEN a ELSE b

Returned == pc \in {"returned", "checked"}
Checked == pc = "checked"
Succeeds == result.status = "success"

\* the field went through none of the three wrappers
Unwrapped == schema = base

\* what a lazy node bound to `name` answers for the probe at check time
Deferred(name) ==
  IF Lookup(schemaMap, name).t = "schema"
    THEN Parse(Lookup(schemaMap, name), probe, schemaMap).status
    ELSE "TypeError"

\* the precedence chain with `??` and presence, as the claim words it
C4_ClaimedBase(f) ==
  IF Present(f.enum) THEN ZEnum(f.enum.a)
  ELSE IF Present(f.reference) THEN ZString
  ELSE IF Present(f.embedded)
    THEN ZLazy(Coalesce(f.embedded.title, f.embedded.name))
  ELSE baseTypeToZod(Or(Or(f.type, f.range), Str("string")))

\* C4 as claimed: the base schema is chosen by first match in the order
\* enum, reference, embedded, base type, an embedded field being deferred
\* to embedded.title ?? embedded.name.
C4_Original == Returned => base = C4_ClaimedBase(field)

\* the name an embedded field is deferred to: the title unless it is absent
\* or empty, else the name
C4_EmbeddedName(f) ==
  IF f.embedded.title.t = "string" /\ f.embedded.title.s # ""
    THEN f.embedded.title
    ELSE f.embedded.name

\* C4 (amended): the base schema is chosen by first match in the order enum,
\* reference, embedded, base type; with enum it accepts exactly the listed
\* literals, with reference exactly the strings, with embedded it defers to
\* the context entry of the embedded title, or of the embedded name when the
\* title is absent or empty.
C4_Precedence ==
  /\ Returned =>
       /\ Present(field.enum) => base = ZEnum(field.enum.a)
       /\ ~Present(field.enum) /\ Present(field.reference) => base = ZString
       /\ ~Present(field.enum) /\ ~Present(field.reference)
            /\ Present(field.embedded)
            => base = ZLazy(C4_EmbeddedName(field))
       /\ ~Present(field.enum) /\ ~Present(field.reference)
            /\ ~Present(field.embedded)
            => base = baseTypeToZod(Or(Or(field.type, field.range),
                                       Str("string")))
  /\ Checked /\ Unwrapped =>
       /\ Present(field.enum) =>
            (Succeeds <=> \E j \in 1..Len(field.enum.a) :
                            probe = field.enum.a[j])
       /\ ~Present(field.enum) /\ Present(field.reference) =>
            (Succeeds <=> probe.t = "string")
       /\ ~Present(field.enum) /\ ~Present(field.reference)
            /\ Present(field.embedded)
            => result.status = Deferred(C4_EmbeddedName(field))

\* C4 witness: a field with enum, reference, embedded and a type was mapped,
\* and a listed literal was accepted
C4_Witness ==
  /\ Checked /\ Succeeds
  /\ Present(field.enum) /\ Present(field.reference)
  /\ Present(field.embedded) /\ Present(field.type)
  /\ probe = Str("draft")

\* the base-type table of the specification, tag by tag
C5_Table(tag) ==
  CASE tag \in {"string", "password", "byte", "binary", "hexBinary",
                "base64Binary", "duration"} -> ZString
    [] tag = "email" -> ZFormat("email")
    [] tag = "url" -> ZFormat("url")
    [] tag = "uuid" -> ZFormat("uuid")
    [] tag = "integer" -> ZInt
    [] tag = "positiveInteger" -> ZIntMin(1)
    [] tag = "negativeInteger" -> ZIntMax(-1)
    [] tag = "nonNegativeInteger" -> ZIntMin(0)
    [] tag = "nonPositiveInteger" -> ZIntMax(0)
    [] tag \in {"number", "decimal", "double", "float"} -> ZNumber
    [] tag = "boolean" -> ZBoolean
    [] tag = "date" -> ZFormat("date")
    [] tag = "dateTime" -> ZFormat("datetime")
    [] tag = "time" -> ZFormat("time")
    [] OTHER -> ZString

NoSpecial(f) ==
  ~Present(f.enum) /\ ~Present(f.reference) /\ ~Present(f.embedded)

\* field.type ?? field.range ?? "string"
C5_ClaimedTag(f) == Coalesce(Coalesce(f.type, f.range), Str("string")).s

\* C5 as claimed: the schema is selected by field.type ?? field.range ??
\* "string", the type winning whenever it is present.
C5_Original ==
  Returned /\ NoSpecial(field) => base = C5_Table(C5_ClaimedTag(field))

NonEmpty(v) == v.t = "string" /\ v.s # ""

\* the type unless it is absent or empty, else the range unless it is absent
\* or empty, else "string"
C5_Tag(f) ==
  IF NonEmpty(f.type) THEN f.type.s
  ELSE IF NonEmpty(f.range) THEN f.range.s
  ELSE "string"

\* the integer n accepted under an integer tag
C5_IntegerOk(tag, n) ==
  CASE tag = "integer" -> TRUE
    [] tag = "positiveInteger" -> n >= 1
    [] tag = "negativeInteger" -> n <= -1
    [] tag = "nonNegativeInteger" -> n >= 0
    [] tag = "nonPositiveInteger" -> n <= 0

\* C5 (amended): for a field without enum, reference or embedded the schema
\* is selected through the case-sensitive table by the type, or by the range
\* when the type is absent or empty, or as "string" when both are; tags
\* outside the table give a plain string; the five integer tags accept
\* exactly the integers on their side of the bound and reject non-integer
\* numbers and strings.
C5_BaseType ==
  /\ Returned /\ NoSpecial(field) => base = C5_Table(C5_Tag(field))
  /\ Checked /\ NoSpecial(field) /\ Unwrapped
       /\ C5_Tag(field) \in INTEGER_TYPES
       => (Succeeds <=> /\ probe.t = "number"
                        /\ probe.h2 % 2 = 0
                        /\ C5_IntegerOk(C5_Tag(field), probe.h2 \div 2))
  /\ Checked /\ NoSpecial(field) /\ Unwrapped
       /\ C5_Tag(field) \notin TableTags
       => (Succeeds <=> probe.t = "string")

\* C5 witness: an empty type left the choice to the range, and integer
\* (taken from the range) accepted 1
C5_Witness ==
  /\ Checked /\ NoSpecial(field) /\ Unwrapped
  /\ field.type = Str("") /\ field.range = Str("integer")
  /\ probe = Num(1) /\ Succeeds

\* the conditions of the three wrappers, as the claim words them
C6_IsArray(f) == f.maxCardinality # Undef /\ f.maxCardinality # Num(1)
C6_IsNullable(f) == f.nullable = Bool(TRUE)
C6_IsOptional(f) == f.required = Bool(FALSE)

\* C6: the wrappers are array (maxCardinality present and not 1), then
\* nullable (nullable true), then optional (required false), outermost last;
\* a field with all three accepts absence, null and an array, and rejects a
\* bare element and an array that contains null.
C6_WrapOrder ==
  /\ Returned =>
       LET s1 == IF C6_IsOptional(field) THEN schema.inner ELSE schema
           s2 == IF C6_IsNullable(field) THEN s1.inner ELSE s1
       IN /\ C6_IsOptional(field) <=> schema.k = "optional"
          /\ C6_IsNullable(field) <=> s1.k = "nullable"
          /\ C6_IsArray(field) <=> s2.k = "array"
          /\ ~C6_IsArray(field) => s2 = base
          /\ C6_IsArray(field) /\ ~Present(field.arrayType) => s2.el = base
  /\ Checked /\ C6_IsArray(field) /\ C6_IsNullable(field)
       /\ C6_IsOptional(field)
       => /\ probe.t \in {"undefined", "null"} => Succeeds
          /\ probe = Arr(<<>>) => Succeeds
          /\ probe.t \notin {"undefined", "null", "array"} => ~Succeeds
          /\ probe.t = "array" /\ (\E j \in 1..Len(probe.a) : probe.a[j] = Null)
               => ~Succeeds
          /\ field.type = Str("string") /\ ~Present(field.arrayType)
               => (Succeeds <=>
                     \/ probe.t \in {"undefined", "null"}
                     \/ /\ probe.t = "array"
                        /\ \A j \in 1..Len(probe.a) : probe.a[j].t = "string")

\* C6 witness: an optional nullable array of strings rejected an array that
\* holds a string and null
C6_Witness ==
  /\ Checked /\ C6_IsArray(field) /\ C6_IsNullable(field)
  /\ C6_IsOptional(field) /\ field.type = Str("string")
  /\ ~Present(field.arrayType)
  /\ probe = Arr(<<Str("hello"), Null>>) /\ result.status = "failure"

(***************************************************************************)
(* Claims about resourceToSchema and collectionSchema, checked under       *)
(* SpecSchema.                                                             *)
(***************************************************************************)
IsResourceCall == resource # Undef
IsCollectionCall == itemSchema # Undef

Keys(entries) == {entries[j][1] : j \in 1..Len(entries)}
Names(list) == IF list.t = "array"
                 THEN {list.a[j].name : j \in 1..Len(list.a)}
                 ELSE {}

\* the last field of the list that carries the name
LastNamed(list, name) ==
  list.a[CHOOSE j \in 1..Len(list.a) :
           /\ list.a[j].name = name
           /\ \A l \in (j + 1)..Len(list.a) : list.a[l].name # name]

AddKey(v, e, x) == Obj(Put(v.o, e, x))

C2_ExtraKeys ==
  {K("extraField"), K("newFieldAddedLater"), K("secret"), HK("totalItems")}
C2_ExtraValues == {Str("still available"), Null, Num(1), Obj(<<>>)}

\* the keys the resource declares, readable or not
C2_Declared ==
  {K("@id"), K("@type")} \cup Names(resource.fields)
    \cup Names(resource.readableFields)

\* the value with key e = x added to the object at `at` of the envelope
C2_AddUnder(at, e, x) ==
  Obj(Put(probe.o, at, AddKey(Get(probe.o, at), e, x)))

C2_AddToMapping(e, x) ==
  LET search == Get(probe.o, K("search"))
      mapping == Get(search.o, K("mapping"))
      first == AddKey(mapping.a[1], e, x)
  IN Obj(Put(probe.o, K("search"),
             Obj(Put(search.o, K("mapping"),
                     Arr([mapping.a EXCEPT ![1] = first])))))

\* C2: a value a resource schema accepts stays accepted when keys the
\* resource does not declare are added, and the accepted result holds those
\* keys with their values; the same for the collection envelope and its
\* view, search and mapping objects.
C2_LooseObjects ==
  /\ Checked /\ IsResourceCall /\ Succeeds =>
       /\ \A j \in 1..Len(probe.o) :
            probe.o[j][1] \notin C2_Declared
              => Get(result.data.o, probe.o[j][1]) = probe.o[j][2]
       /\ \A e \in C2_ExtraKeys \ C2_Declared : \A x \in C2_ExtraValues :
            LET r == Parse(schema, AddKey(probe, e, x), schemaMap)
            IN r.status = "success" /\ Get(r.data.o, e) = x
  /\ Checked /\ IsCollectionCall /\ Succeeds =>
       \A e \in C2_ExtraKeys : \A x \in C2_ExtraValues :
         /\ LET r == Parse(schema, AddKey(probe, e, x), schemaMap)
            IN r.status = "success" /\ Get(r.data.o, e) = x
         /\ \A at \in {K("view"), K("search")} :
              Get(probe.o, at).t = "object" =>
                LET r == Parse(schema, C2_AddUnder(at, e, x), schemaMap)
                IN /\ r.status = "success"
                   /\ Get(Get(r.data.o, at).o, e) = x
         /\ ( /\ Get(probe.o, K("search")).t = "object"
              /\ Get(Get(probe.o, K("search")).o, K("mapping")).t = "array"
              /\ Get(Get(probe.o, K("search")).o, K("mapping")).a # <<>> )
              => LET r == Parse(schema, C2_AddToMapping(e, x), schemaMap)
                 IN /\ r.status = "success"
                    /\ Get(Get(Get(r.data.o, K("search")).o,
                               K("mapping")).a[1].o, e) = x

\* C2 witness: the value of the README, with an undeclared key, was accepted
\* by a resource schema
C2_Witness ==
  /\ Checked /\ IsResourceCall /\ Succeeds
  /\ resource.readableFields = Arr(<<fTitle>>)
  /\ probe = Obj(<< <<K("@id"), Str("/api/books/1")>>,
                    <<K("@type"), Str("Book")>>,
                    <<K("title"), Str("Test")>>,
                    <<K("extraField"), Str("should be allowed")>> >>)
  /\ Get(result.data.o, K("extraField")) = Str("should be allowed")

\* the list of fields the schema is built from, as the claims word it
ClaimedFields(r) ==
  Coalesce(Coalesce(r.readableFields, r.fields), Arr(<<>>))

\* C3 as claimed: whatever the field names, '@id' is a plain string and
\* '@type' the literal resource.title ?? resource.name, the other keys being
\* the declared fields, so a value with another '@type' is rejected.
C3_Original ==
  /\ Returned /\ IsResourceCall =>
       /\ Get(schema.shape, K("@id")) = ZString
       /\ Get(schema.shape, K("@type")) =
            ZLiteral(Coalesce(resource.title, resource.name))
       /\ Keys(schema.shape) =
            {K("@id"), K("@type")} \cup Names(ClaimedFields(resource))
  /\ Checked /\ IsResourceCall /\ probe.t = "object"
       /\ Get(probe.o, K("@type")) # Coalesce(resource.title, resource.name)
       => ~Succeeds

\* the title unless it is absent or empty, else the name
C3_Title(r) == IF NonEmpty(r.title) THEN r.title ELSE r.name

\* C3 (amended): the keys of the schema are '@id', '@type' and the declared
\* field names; '@id' is a plain string and '@type' the literal of the title
\* (of the name when the title is absent or empty), so that a value with
\* another '@type' is rejected, unless a declared field is itself named
\* '@id' or '@type': the schema of that field then takes the place of the
\* fixed key.
C3_FixedKeys ==
  /\ Returned /\ IsResourceCall =>
       LET declared == ClaimedFields(resource)
       IN /\ Keys(schema.shape) = {K("@id"), K("@type")} \cup Names(declared)
          /\ Len(schema.shape) = Cardinality(Keys(schema.shape))
          /\ K("@id") \notin Names(declared)
               => Get(schema.shape, K("@id")) = ZString
          /\ K("@type") \notin Names(declared)
               => Get(schema.shape, K("@type")) =
                    ZLiteral(C3_Title(resource))
          /\ \A n \in Names(declared) :
               Get(schema.shape, n) =
                 fieldToZod(LastNamed(declared, n), schemaMap)
  /\ Checked /\ IsResourceCall /\ probe.t = "object"
       /\ K("@type") \notin Names(ClaimedFields(resource))
       /\ Get(probe.o, K("@type")) # C3_Title(resource)
       => ~Succeeds

\* C3 witness: a value valid but for its '@type' was rejected, the resource
\* having an empty title
C3_Witness ==
  /\ Checked /\ IsResourceCall /\ result.status = "failure"
  /\ resource.title = Str("") /\ resource.name = Str("Book")
  /\ resource.readableFields = Arr(<<fTitle>>)
  /\ probe = Obj(<< <<K("@id"), Str("/api/books/1")>>,
                    <<K("@type"), Str("Author")>>,
                    <<K("title"), Str("Test")>> >>)

\* the value without the key
Without(v, key) == Obj(SelectSeq(v.o, LAMBDA p : p[1] # key))

\* C8: the keys checked are those of readableFields when it is present, else
\* those of fields, else none beyond '@id' and '@type'; a name that only
\* fields declares is not checked, so leaving it out changes nothing.
C8_ReadableFields ==
  /\ Returned /\ IsResourceCall =>
       /\ Keys(schema.shape) =
            {K("@id"), K("@type")} \cup Names(ClaimedFields(resource))
       /\ ~Present(resource.readableFields) /\ ~Present(resource.fields)
            => Keys(schema.shape) = {K("@id"), K("@type")}
  /\ Checked /\ IsResourceCall /\ probe.t = "object"
       /\ Present(resource.readableFields) /\ Present(resource.fields)
       => \A n \in Names(resource.fields)
                     \ (Names(resource.readableFields)
                          \cup {K("@id"), K("@type")}) :
            Parse(schema, Without(probe, n), schemaMap).status
              = result.status

\* C8 witness: readableFields names title, fields names title and secret,
\* and a value without secret was accepted
C8_Witness ==
  /\ Checked /\ IsResourceCall /\ Succeeds
  /\ resource.fields = Arr(<<fTitle, fSecret>>)
  /\ resource.readableFields = Arr(<<fTitle>>)
  /\ probe = Obj(<< <<K("@id"), Str("/api/books/1")>>,
                    <<K("@type"), Str("Book")>>,
                    <<K("title"), Str("Test")>> >>)

IsStr(v) == v.t = "string"
OptStr(v) == v.t \in {"undefined", "string"}
At(v, name) == Get(v.o, K(name))

C9_ViewOk(v) ==
  \/ v.t = "undefined"
  \/ /\ v.t = "object"
     /\ IsStr(At(v, "@id")) /\ IsStr(At(v, "@type"))
     /\ \A n \in {"first", "last", "previous", "next"} : OptStr(At(v, n))

C9_MappingOk(m) ==
  /\ m.t = "object"
  /\ IsStr(At(m, "@type")) /\ IsStr(At(m, "variable"))
  /\ At(m, "property").t \in {"undefined", "null", "string"}
  /\ At(m, "required").t \in {"undefined", "boolean"}

C9_SearchOk(v) ==
  \/ v.t = "undefined"
  \/ /\ v.t = "object"
     /\ IsStr(At(v, "@type"))
     /\ OptStr(At(v, "template"))
     /\ OptStr(At(v, "variableRepresentation"))
     /\ \/ At(v, "mapping").t = "undefined"
        \/ /\ At(v, "mapping").t = "array"
           /\ \A j \in 1..Len(At(v, "mapping").a) :
                C9_MappingOk(At(v, "mapping").a[j])

C9_Valid(v) ==
  /\ v.t = "object"
  /\ IsStr(At(v, "@id")) /\ IsStr(At(v, "@type"))
  /\ IsInteger(At(v, "totalItems"))
  /\ At(v, "member").t = "array"
  /\ \A j \in 1..Len(At(v, "member").a) :
       Accepts(itemSchema, At(v, "member").a[j], schemaMap)
  /\ C9_ViewOk(At(v, "view"))
  /\ C9_SearchOk(At(v, "search"))

\* C9: collectionSchema(itemSchema) accepts a value iff '@id' and '@type'
\* are strings, totalItems is an integer, member is an array of values the
\* item schema accepts, view is absent or a paging object and search is
\* absent or an IRI-template object.
C9_Envelope ==
  Checked /\ IsCollectionCall => (Succeeds <=> C9_Valid(probe))

\* C9 witness: an envelope without view and search, with one member, was
\* accepted; TotalItems and member cannot be left out
C9_Witness ==
  /\ Checked /\ IsCollectionCall /\ Succeeds
  /\ ~HasKey(probe.o, K("view")) /\ ~HasKey(probe.o, K("search"))
  /\ At(probe, "member") = Arr(<<BookValue>>)
  /\ itemSchema.k = "looseObject" /\ Len(itemSchema.shape) = 3

(***************************************************************************)
(* Claims about schemasFromResources, checked under Spec.                  *)
(***************************************************************************)
Done == pc \in {"done", "checked"}
OnSchema == pc = "checked" /\ target.kind = "schema"
OnCollection == pc = "checked" /\ target.kind = "collection"

\* the iterations and loop exits still to run before the call returns
Remaining ==
  CASE pc = "pass1" -> 3 * (Len(resources) + 1) - i + 1
    [] pc = "pass2" -> 2 * (Len(resources) + 1) - i + 1
    [] pc = "pass3" -> (Len(resources) + 1) - i + 1
    [] OTHER -> 0

\* the last resource of the list stored under the name
LastWithName(n) ==
  resources[CHOOSE j \in 1..Len(resources) :
              /\ NameOf(resources[j]) = n
              /\ \A l \in (j + 1)..Len(resources) : NameOf(resources[l]) # n]

\* the fields of the resources of the list
AllFields ==
  UNION {{FieldsOf(resources[l]).a[j] :
            j \in 1..Len(FieldsOf(resources[l]).a)} :
         l \in 1..Len(resources)}

\* the titles the fields of the list embed
EmbeddedTitles ==
  {Or(f.embedded.title, f.embedded.name).s :
     f \in {g \in AllFields : Truthy(g.embedded)}}

C1_Returned ==
  Done =>
    /\ \A j \in 1..Len(resources) :
         /\ NameOf(resources[j]) \in DOMAIN schemas
         /\ NameOf(resources[j]) \in DOMAIN collections
         /\ TitleOf(resources[j]) \in DOMAIN schemaMap
    /\ \A n \in DOMAIN schemas :
         /\ schemas[n].t = "schema" /\ schemas[n].k = "looseObject"
         \* built without a look at the context
         /\ schemas[n] = resourceToSchema(LastWithName(n), <<>>)
         /\ collections[n] = ZPreprocess(collectionSchema(schemas[n]))

C1_Checks ==
  /\ pc = "checked" => result.status \in {"success", "failure", "TypeError"}
  /\ pc = "checked" /\ EmbeddedTitles \subseteq DOMAIN schemaMap
       => result.status # "TypeError"
  /\ ( /\ OnSchema /\ target.name = "Book" /\ probe = Book1
       /\ resources = << Resource(Str("Book"), Str("Book"), <<fTitle, gAuthor>>),
                         Resource(Str("Author"), Str("Author"), <<gBooks>>) >> )
       => Succeeds

\* C1: for every resource list, cyclic or not, schemasFromResources runs to
\* its return (no step is stuck, each step shortens what is left) and
\* returns a schema and a collection for every resource, built without
\* reading the context; every check of a value ends with an outcome, and
\* Book{author: Author{books: []}} is accepted by Book's schema.
C1_Terminates ==
  /\ [](Done \/ ENABLED Build)
  /\ [][Build => Remaining' < Remaining]_vars
  /\ [](Remaining >= 0)
  /\ []C1_Returned
  /\ []C1_Checks

\* C1 witness: Book embeds Author, Author embeds many Book, and the nested
\* value was accepted by Book's schema
C1_Witness ==
  /\ OnSchema /\ target.name = "Book" /\ probe = Book1 /\ Succeeds
  /\ resources = << Resource(Str("Book"), Str("Book"), <<fTitle, gAuthor>>),
                    Resource(Str("Author"), Str("Author"), <<gBooks>>) >>

\* the resource whose schema is being checked
CheckedResource == LastWithName(target.name)

\* the fields of the checked resource that embed a title without any entry
\* in the context
UnknownEmbedded ==
  {f \in {FieldsOf(CheckedResource).a[j] :
            j \in 1..Len(FieldsOf(CheckedResource).a)} :
     /\ Truthy(f.embedded)
     /\ Or(f.embedded.title, f.embedded.name).s \notin DOMAIN schemaMap}

\* C7 as claimed, read as weakly as it can be: an object checked against a
\* schema with an embedded field whose title has no context entry is never
\* accepted (whatever the error and however it is reported).
C7_Original ==
  OnSchema /\ probe.t = "object" /\ UnknownEmbedded # {}
    => result.status # "success"

RECURSIVE NoHydraKeys(_)
\* no key of the value, at any depth, starts with "hydra:"
NoHydraKeys(v) ==
  CASE v.t = "array" -> \A j \in 1..Len(v.a) : NoHydraKeys(v.a[j])
    [] v.t = "object" ->
         \A j \in 1..Len(v.o) :
           /\ v.o[j][1] = <<>> \/ v.o[j][1][1] # "hydra:"
           /\ NoHydraKeys(v.o[j][2])
    [] OTHER -> TRUE

RECURSIVE PrefixedOnce(_)
\* no key of the value carries the prefix twice, and no object holds a key
\* both with and without the prefix
PrefixedOnce(v) ==
  CASE v.t = "array" -> \A j \in 1..Len(v.a) : PrefixedOnce(v.a[j])
    [] v.t = "object" ->
         /\ \A j \in 1..Len(v.o) :
              /\ Len(v.o[j][1]) >= 2 /\ v.o[j][1][1] = "hydra:"
                   => v.o[j][1][2] # "hydra:"
              /\ Len(v.o[j][1]) >= 1 /\ v.o[j][1][1] = "hydra:"
                   => ~HasKey(v.o, SubSeq(v.o[j][1], 2, Len(v.o[j][1])))
              /\ PrefixedOnce(v.o[j][2])
    [] OTHER -> TRUE

\* the key without one leading "hydra:"
C10_Unprefixed(key) ==
  IF key # <<>> /\ key[1] = "hydra:" THEN SubSeq(key, 2, Len(key)) ELSE key

\* the last entry of the object whose key, unprefixed, is k
C10_LastFor(o, k) ==
  o[CHOOSE j \in 1..Len(o) :
      /\ C10_Unprefixed(o[j][1]) = k
      /\ \A l \in (j + 1)..Len(o) : C10_Unprefixed(o[l][1]) # k]

\* the first place in the object of a key that, unprefixed, is k
C10_FirstAt(o, k) ==
  CHOOSE j \in 1..Len(o) :
    /\ C10_Unprefixed(o[j][1]) = k
    /\ \A l \in 1..(j - 1) : C10_Unprefixed(o[l][1]) # k

RECURSIVE C10_Stripped(_, _)
\* out is in with one leading "hydra:" removed from every key at every
\* depth: arrays keep length and order, other values are unchanged, and of
\* the entries of an object whose keys become equal one remains, in the place
\* of the first and with the value of the last
C10_Stripped(in, out) ==
  CASE in.t = "array" ->
         /\ out.t = "array" /\ Len(out.a) = Len(in.a)
         /\ \A j \in 1..Len(in.a) : C10_Stripped(in.a[j], out.a[j])
    [] in.t = "object" ->
         /\ out.t = "object"
         /\ Keys(out.o) = {C10_Unprefixed(k) : k \in Keys(in.o)}
         /\ Len(out.o) = Cardinality(Keys(out.o))
         /\ \A j \in 1..Len(out.o) :
              /\ C10_Stripped(C10_LastFor(in.o, out.o[j][1])[2], out.o[j][2])
              /\ \A l \in 1..Len(out.o) :
                   j < l => C10_FirstAt(in.o, out.o[j][1])
                              < C10_FirstAt(in.o, out.o[l][1])
    [] OTHER -> out = in

\* C10 as claimed: after normalisation no key carries the prefix, the
\* unprefixed keys of the envelope keep their values, and the rewritten value
\* is what the envelope is checked against.
C10_Original ==
  OnCollection =>
    /\ NoHydraKeys(normalized)
    /\ probe.t = "object" =>
         \A j \in 1..Len(probe.o) :
           /\ probe.o[j][1] = C10_Unprefixed(probe.o[j][1])
           /\ probe.o[j][2].t \notin {"array", "object"}
           => Get(normalized.o, probe.o[j][1]) = probe.o[j][2]
    /\ result.status = Parse(schema.inner, normalized, schemaMap).status

\* C10 (amended): collections[name] rewrites the checked value by removing
\* one leading "hydra:" from every object key at every depth (member items
\* included), keeping array order and non-object values, and checks the
\* rewritten value against the envelope of schemas[name]; keys that become
\* equal in one object collapse into one entry with the value of the last;
\* when no key carries the prefix twice and no object holds a key in both
\* forms, no key carries the prefix afterwards and the value is accepted
\* exactly when its unprefixed form is.
C10_Normalised ==
  OnCollection =>
    /\ C10_Stripped(probe, normalized)
    /\ schema = ZPreprocess(collectionSchema(schemas[target.name]))
    /\ result.status = Parse(schema.inner, normalized, schemaMap).status
    /\ PrefixedOnce(probe) =>
         /\ NoHydraKeys(normalized)
         /\ result.status = Parse(schema, normalized, schemaMap).status

\* C10 witness: an envelope written with hydra:totalItems, hydra:member and
\* hydra:view, its member written with hydra:title, was accepted
C10_Witness ==
  /\ OnCollection /\ Succeeds /\ PrefixedOnce(probe)
  /\ HasKey(probe.o, HK("totalItems")) /\ HasKey(probe.o, HK("view"))
  /\ Get(probe.o, HK("member")) = Arr(<<HydraBook0>>)
  /\ normalized # probe

RECURSIVE C11_Dereferences(_, _, _)
\* the check of the value against the schema runs the getter of a deferred
\* reference to the title (the getter's own result is not followed)
C11_Dereferences(s, v, title) ==
  CASE s.k \in {"looseObject", "object"} ->
         /\ v.t = "object"
         /\ \E j \in 1..Len(s.shape) :
              C11_Dereferences(s.shape[j][2], Get(v.o, s.shape[j][1]), title)
    [] s.k = "array" ->
         /\ v.t = "array"
         /\ \E j \in 1..Len(v.a) : C11_Dereferences(s.el, v.a[j], title)
    [] s.k = "nullable" ->
         v.t # "null" /\ C11_Dereferences(s.inner, v, title)
    [] s.k = "optional" ->
         v.t # "undefined" /\ C11_Dereferences(s.inner, v, title)
    [] s.k = "lazy" -> s.ref = Str(title)
    [] s.k = "preprocess" ->
         C11_Dereferences(s.inner, stripHydraPrefix(v), title)
    [] OTHER -> FALSE

\* the titles registered and not yet given their schema
C11_Placeholders == {t \in DOMAIN schemaMap : schemaMap[t] = Null}

\* the contexts a build step could have been given: none, the present one,
\* and the one that holds placeholders only
C11_Contexts ==
  {<<>>, schemaMap, [t \in DOMAIN schemaMap |-> Null]}

\* pass 1 is complete before pass 2 builds anything
C11_RegisteredFirst ==
  /\ pc = "pass1" =>
       /\ schemas = <<>> /\ collections = <<>>
       /\ \A t \in DOMAIN schemaMap : schemaMap[t] = Null
  /\ pc # "pass1" =>
       \A j \in 1..Len(resources) : TitleOf(resources[j]) \in DOMAIN schemaMap

\* pass 2 is complete before collections are built and before any check
C11_FinishedBeforeCheck ==
  pc \in {"pass3", "done", "checked"} =>
    /\ C11_Placeholders = {}
    /\ \A j \in 1..Len(resources) :
         /\ schemaMap[TitleOf(resources[j])].t = "schema"
         /\ NameOf(resources[j]) \in DOMAIN schemas

\* what a build step writes does not depend on what the context holds
C11_NoReadWhileBuilding ==
  /\ Pass2Step =>
       \A m \in C11_Contexts :
         /\ schemas'[NameOf(resources[i])] = resourceToSchema(resources[i], m)
         /\ schemaMap'[TitleOf(resources[i])] = resourceToSchema(resources[i], m)
  /\ Pass3Step => schemaMap' = schemaMap /\ schemas' = schemas
  /\ Pass1Step \/ Pass1Done \/ Pass2Done \/ Return => schemas' = schemas

\* a check of a schema built so far that runs the getter of a title still
\* held as a placeholder raises an error
C11_LoudPlaceholder ==
  pc = "pass2" =>
    \A n \in DOMAIN schemas : \A v \in ItemProbes :
      (\E t \in C11_Placeholders : C11_Dereferences(schemas[n], v, t))
        => Parse(schemas[n], v, schemaMap).status = "TypeError"

\* C11: within one call every title is registered as a placeholder before
\* any schema is built, no build step's result depends on the context (no
\* deferred field reads it while building), every check happens after pass 2
\* has written the finished schema of every resource, and a check that
\* dereferences a title still held as a placeholder raises an error instead
\* of succeeding.
C11_Sequencing ==
  /\ []C11_RegisteredFirst
  /\ []C11_FinishedBeforeCheck
  /\ [][C11_NoReadWhileBuilding]_vars
  /\ []C11_LoudPlaceholder

\* C11 witness: in the middle of pass 2 Book's schema is built, Author is
\* still a placeholder, and checking Book{author: Author{books: []}} there
\* dereferences Author and raises the error
C11_Witness ==
  /\ pc = "pass2" /\ "Book" \in DOMAIN schemas
  /\ "Author" \in C11_Placeholders
  /\ C11_Dereferences(schemas["Book"], Book1, "Author")
  /\ Parse(schemas["Book"], Book1, schemaMap).status = "TypeError"

\* the last of the first k resources with the title / with the name
C12_LastTitled(t, k) ==
  resources[CHOOSE j \in 1..k :
              /\ TitleOf(resources[j]) = t
              /\ \A l \in (j + 1)..k : TitleOf(resources[l]) # t]

C12_LastNamedUpTo(n, k) ==
  resources[CHOOSE j \in 1..k :
              /\ NameOf(resources[j]) = n
              /\ \A l \in (j + 1)..k : NameOf(resources[l]) # n]

C12_Titles(k) == {TitleOf(resources[j]) : j \in 1..k}
C12_Names(k) == {NameOf(resources[j]) : j \in 1..k}

\* the schema of a resource, as built from the resource alone
C12_SchemaOf(r) == resourceToSchema(r, <<>>)

\* the context after the first k steps of pass 2
C12_ContextAfter(k) ==
  [t \in C12_Titles(Len(resources)) |->
     IF t \in C12_Titles(k) THEN C12_SchemaOf(C12_LastTitled(t, k)) ELSE Null]

\* every pass has handled exactly the first i - 1 resources, in order, each
\* write replacing what an earlier resource of the same title or name left
C12_InOrder ==
  LET all == Len(resources)
      k == IF i - 1 <= all THEN i - 1 ELSE all
  IN /\ pc = "pass1" =>
          /\ schemaMap = [t \in C12_Titles(k) |-> Null]
          /\ schemas = <<>> /\ collections = <<>>
     /\ pc = "pass2" =>
          /\ schemaMap = C12_ContextAfter(k)
          /\ DOMAIN schemas = C12_Names(k)
          /\ \A n \in C12_Names(k) :
               schemas[n] = C12_SchemaOf(C12_LastNamedUpTo(n, k))
          /\ collections = <<>>
     /\ pc = "pass3" =>
          /\ DOMAIN collections = C12_Names(k)
          /\ \A n \in C12_Names(k) :
               collections[n] =
                 ZPreprocess(collectionSchema(
                   C12_SchemaOf(C12_LastNamedUpTo(n, all))))
     /\ pc \in {"pass3", "done"} =>
          /\ schemaMap = C12_ContextAfter(all)
          /\ DOMAIN schemas = C12_Names(all)
          /\ \A n \in C12_Names(all) :
               schemas[n] = C12_SchemaOf(C12_LastNamedUpTo(n, all))
     /\ pc = "done" =>
          /\ DOMAIN collections = C12_Names(all)
          /\ \A n \in C12_Names(all) :
               collections[n] =
                 ZPreprocess(collectionSchema(
                   C12_SchemaOf(C12_LastNamedUpTo(n, all))))

\* within one resource the schema under a field name is that of the last
\* field with the name, and every name has one key
C12_LastField ==
  pc \in {"pass3", "done"} =>
  \A n \in DOMAIN schemas :
    LET fs == FieldsOf(C12_LastNamedUpTo(n, Len(resources))).a
        names == {fs[j].name : j \in 1..Len(fs)}
        last(nm) == fs[CHOOSE j \in 1..Len(fs) :
                         /\ fs[j].name = nm
                         /\ \A l \in (j + 1)..Len(fs) : fs[l].name # nm]
    IN /\ Len(schemas[n].shape)
            = Cardinality({K("@id"), K("@type")} \cup names)
       /\ \A nm \in names :
            Get(schemas[n].shape, nm) = fieldToZod(last(nm), <<>>)

\* a check changes nothing of what the call returned
C12_ChecksKeep ==
  pc = "done" /\ pc' = "checked"
    => UNCHANGED <<resources, schemaMap, schemas, collections>>

\* a check resolves every embedded title, in whatever schema it stands, to
\* the schema of the last resource with the title
C12_LaterResolves ==
  pc = "checked" =>
    result = Parse(schema, probe, C12_ContextAfter(Len(resources)))

\* C12: the three passes handle the resources in the supplied order and a
\* duplicate overwrites without error: the context entry of a title, and so
\* every embedded reference to it (also from schemas built earlier), is the
\* schema of the last resource with the title; schemas[name] and
\* collections[name] come from the last resource with the name; within one
\* resource the last field with a name gives the key's schema.
C12_LastWriteWins ==
  /\ []C12_InOrder
  /\ []C12_LastField
  /\ [][C12_ChecksKeep]_vars
  /\ []C12_LaterResolves
  /\ [](pc \in {"done", "checked"} \/ ENABLED Build)

\* C12 witness: Book (embedding Book as parent) is followed by a second
\* resource titled Book whose title field, declared twice, is an integer;
\* Book's schema, built first, rejects a parent whose title is a string,
\* which the schema of the first resource accepts
C12_Witness ==
  /\ OnSchema /\ target.name = "Book" /\ Len(resources) = 2
  /\ resources[1] = Resource(Str("Book"), Str("Book"), <<gParent>>)
  /\ resources[2] = Resource(Str("books"), Str("Book"), <<fTitle, fTitleInt>>)
  /\ probe.t = "object" /\ Get(probe.o, K("parent")) = Book0
  /\ result.status = "failure"
  /\ Accepts(schema, probe, "Book" :> C12_SchemaOf(resources[1]))

\* the schema under the nullable and optional wrappers of the field
C13_UnderWrappers ==
  LET s1 == IF C6_IsOptional(field) THEN schema.inner ELSE schema
  IN IF C6_IsNullable(field) THEN s1.inner ELSE s1

\* the element schema when arrayType counts as given whenever it is present
C13_ClaimedElement ==
  IF Present(field.arrayType) THEN baseTypeToZod(field.arrayType) ELSE base

\* C13 as claimed: the element of an array-wrapped field is the base-type
\* mapping of arrayType whenever arrayType is present (also the empty
\* string), else the schema already computed.
C13_Original ==
  Returned /\ C6_IsArray(field) =>
    /\ C13_UnderWrappers.k = "array"
    /\ C13_UnderWrappers.el = C13_ClaimedElement

\* the element schema when an empty arrayType counts as not given
C13_Element ==
  IF NonEmpty(field.arrayType) THEN baseTypeToZod(field.arrayType) ELSE base

\* C13 (amended): the element of an array-wrapped field is the base-type
\* mapping of arrayType when arrayType is present and not empty, whatever
\* enum, reference or embedded the field has, and otherwise (absent, null or
\* empty) exactly the schema already computed; an array is accepted iff
\* each element passes that element schema; arrayType has no effect on a
\* field that is not array-wrapped.
C13_ElementSchema ==
  /\ Returned /\ C6_IsArray(field) =>
       /\ C13_UnderWrappers.k = "array"
       /\ C13_UnderWrappers.el = C13_Element
       /\ NonEmpty(field.arrayType) => C13_UnderWrappers.el = ZInt
  /\ Returned /\ ~C6_IsArray(field) =>
       /\ C13_UnderWrappers = base
       /\ schema = fieldToZod([field EXCEPT !.arrayType = Undef], schemaMap)
  /\ Checked /\ C6_IsArray(field) /\ probe.t = "array" =>
       /\ result.status = "success" <=>
            \A j \in 1..Len(probe.a) :
              Accepts(C13_Element, probe.a[j], schemaMap)
       /\ NonEmpty(field.arrayType) =>
            (Succeeds <=> \A j \in 1..Len(probe.a) : IsInteger(probe.a[j]))

\* C13 witness: a field with enum values and arrayType integer, cardinality
\* many, accepted an array of an integer (which the enum schema rejects)
C13_Witness ==
  /\ Checked /\ C6_IsArray(field) /\ Truthy(field.enum)
  /\ field.arrayType = Str("integer")
  /\ probe = Arr(<<Num(1)>>) /\ Succeeds
  /\ ~Accepts(base, Num(1), schemaMap)

\* the key of a resource when only an absent name gives way to the title
C14_ClaimedName(r) == Coalesce(r.name, r.title).s

\* C14 as claimed: the keys of schemas and collections are the name of
\* every resource, the title standing in only for an absent name.
C14_Original ==
  pc = "done" =>
    /\ DOMAIN schemas
         = {C14_ClaimedName(resources[j]) : j \in 1..Len(resources)}
    /\ DOMAIN collections = DOMAIN schemas

\* the key of a resource: its name, or its title when the name is absent
\* or empty
C14_Name(r) == IF NonEmpty(r.name) THEN r.name.s ELSE TitleOf(r)

C14_AtReturn ==
  pc = "done" =>
    /\ DOMAIN schemaMap = {TitleOf(resources[j]) : j \in 1..Len(resources)}
    /\ \A t \in DOMAIN schemaMap :
         /\ schemaMap[t] # Null
         /\ schemaMap[t].t = "schema" /\ schemaMap[t].k = "looseObject"
    /\ DOMAIN schemas = {C14_Name(resources[j]) : j \in 1..Len(resources)}
    /\ DOMAIN collections = DOMAIN schemas
    /\ \A k \in DOMAIN schemas :
         /\ collections[k] = ZPreprocess(collectionSchema(schemas[k]))
         /\ Get(collections[k].inner.shape, K("member")).el = schemas[k]

\* schemas is complete at the end of pass 2, and every title registered in
\* pass 1 stays registered
C14_Kept ==
  /\ Pass3Step \/ Return => schemas' = schemas /\ schemaMap' = schemaMap
  /\ DOMAIN schemaMap \subseteq DOMAIN schemaMap'

\* C14 (amended): when schemasFromResources returns, the context holds a
\* finished object schema, never the placeholder, for every title registered
\* in pass 1; schemas and collections have the same key set, the name of
\* every resource, or its title when the name is absent or empty; and
\* collections[k] wraps exactly the schema that schemas[k] holds since the
\* end of pass 2.
C14_Finished ==
  /\ []C14_AtReturn
  /\ [][C14_Kept]_vars

\* C14 witness: a call returned for a resource with an empty name and a
\* resource without a name, each stored under its title
C14_Witness ==
  /\ pc = "done" /\ Len(resources) = 2
  /\ resources[1].name = Str("") /\ resources[2].name = Undef
  /\ DOMAIN schemas = {"Book", "Author"}
  /\ DOMAIN collections = {"Book", "Author"}
  /\ schemaMap["Book"] = schemas["Book"]

====
